---- MODULE Spec2Model ----
(***************************************************************************)
(* Model of fleaker's MultiStageConfigurableApp (fleaker/config.py) and of *)
(* the release helper (scripts/make_release.py).                           *)
(*                                                                         *)
(* Strings whose characters matter (configuration keys, file names, git    *)
(* tags) are sequences of one-character strings, so that str.isupper,      *)
(* os.path.splitext and 'v' + version are computed, not assumed.           *)
(***************************************************************************)
EXTENDS Integers, Sequences, FiniteSets, TLC

\* ------------------------------------------------------------------ bounds
\* Largest number of positional sources of one configure() call.
MaxArgs == 2
\* Versions 1..MaxVersion can head the CHANGES file.
MaxVersion == 2

\* ------------------------------------------------------------- characters
UpperChars == {"A", "B"}
LowerChars == {"a", "b", "c", "e", "f", "g", "i", "j", "m", "n", "o", "p", "s", "t", "x", "y", "v"}

\* str.isupper(): at least one cased character and no lowercase one.
IsUpper(k) ==
    /\ \E n \in 1..Len(k) : k[n] \in UpperChars
    /\ \A n \in 1..Len(k) : k[n] \notin LowerChars

\* Configuration keys used by the sample sources.
KA  == <<"A">>
KB  == <<"B">>
Kb  == <<"b">>
KAb == <<"A", "b">>
K1  == <<"1">>
AllKeys == {KA, KB, Kb, KAb, K1}
Values == {1, 2}

\* The empty dict.
EmptyMap == [k \in {} |-> 0]

\* Mutant of Update: on a collision the entry already in s is kept.
Update_KeepOld(s, m) ==
    [k \in (DOMAIN s) \cup (DOMAIN m) |-> IF k \in DOMAIN s THEN s[k] ELSE m[k]]

\* dict.update: entries of m override entries of s.
Update(s, m) ==
    [k \in (DOMAIN s) \cup (DOMAIN m) |-> IF k \in DOMAIN m THEN m[k] ELSE s[k]]

\* {k: v for k, v in item.items() if k in keep}
Restrict(m, keep) == [k \in (DOMAIN m) \cap keep |-> m[k]]

\* ------------------------------------------------------------ os.path.splitext
\* Index of the last occurrence of c in p, 0 when absent (str.rfind + 1).
RFind(p, c) ==
    IF \E n \in 1..Len(p) : p[n] = c
    THEN CHOOSE n \in 1..Len(p) : p[n] = c /\ \A m \in (n+1)..Len(p) : p[m] # c
    ELSE 0

\* The extension of p as splitext returns it: the text from the last dot on,
\* provided that dot comes after the last '/' and is preceded, in the file
\* name, by a character other than a dot; otherwise the empty string.
splitext(p) ==
    LET sepIndex == RFind(p, "/")
        dotIndex == RFind(p, ".")
    IN  IF /\ dotIndex > sepIndex
           /\ \E n \in (sepIndex + 1)..(dotIndex - 1) : p[n] # "."
        THEN SubSeq(p, dotIndex, Len(p))
        ELSE <<>>

ExtJson == <<".", "j", "s", "o", "n">>
ExtCfg  == <<".", "c", "f", "g">>
ExtPy   == <<".", "p", "y">>

\* ------------------------------------------------------------------ sources
\* A positional argument of configure().  type is what the isinstance tests
\* see, text the characters of a str (or of str(item) for other values),
\* attrs the items of a dict or the attributes dir() lists on a module or
\* class, items whether hasattr(item, 'items') holds.
Src(ty, tx, at, it) == [type |-> ty, text |-> tx, attrs |-> at, items |-> it]

Kitems == <<"i", "t", "e", "m", "s">>

MappingSources ==
    { Src("dict", <<>>, EmptyMap, TRUE),
      Src("dict", <<>>, (KA :> 1), TRUE),
      Src("dict", <<>>, (KA :> 2) @@ (KB :> 1), TRUE),
      Src("dict", <<>>, (KB :> 2), TRUE),
      Src("dict", <<>>, (KA :> 1) @@ (Kb :> 2), TRUE),
      Src("dict", <<>>, (Kb :> 1) @@ (KAb :> 2) @@ (KB :> 1), TRUE) }

PJson    == <<"a", ".", "j", "s", "o", "n">>
PNoJson  == <<"x", ".", "j", "s", "o", "n">>
PCfg     == <<"a", "/", "b", ".", "c", "f", "g">>
PPy      == <<"a", ".", "p", "y">>
PMod     == <<"m">>
PRel     == <<".", "m">>
PDotJson == <<".", "j", "s", "o", "n">>
PDirDot  == <<"a", ".", "p", "y", "/", "m">>
PEmpty   == <<>>

StringSources ==
    { Src("str", p, EmptyMap, FALSE) :
        p \in {PJson, PNoJson, PCfg, PPy, PMod, PRel, PDotJson, PDirDot, PEmpty} }

ObjectSources ==
    { Src("module", <<>>, (KA :> 1) @@ (Kb :> 2), FALSE),
      Src("class", <<>>, (KB :> 2) @@ (Kitems :> 1), TRUE) }

OtherSources == { Src("int", <<"5">>, EmptyMap, FALSE) }

Sources == MappingSources \cup StringSources \cup ObjectSources \cup OtherSources

\* The whitelist keyword: None, or an explicit list of keys.
NoWhitelist == [given |-> FALSE, keys |-> {}]
Whitelists ==
    { NoWhitelist,
      [given |-> TRUE, keys |-> {}],
      [given |-> TRUE, keys |-> {KB, Kb}] }

\* -------------------------------------------------------------- environment
\* The files flask.Config.from_json / from_pyfile can read, with the names
\* each defines; a path outside the table does not exist.
FilePaths == {PJson, PCfg, PPy}
FileData(p) ==
    CASE p = PJson -> (KA :> 2) @@ (Kb :> 1)
      [] p = PCfg  -> (KB :> 1) @@ (KAb :> 2)
      [] p = PPy   -> (KA :> 1) @@ (K1 :> 2)
      [] OTHER     -> EmptyMap

\* What importlib.import_module(item, package=package) finds: an absolute
\* name, or a relative one resolved against the application's import_name.
Importable(item, package) ==
    \/ item = PMod /\ ~package
    \/ item = PRel /\ package
ModuleAttrs(item) ==
    CASE item = PMod -> (KB :> 2) @@ (Kb :> 1)
      [] item = PRel -> (KA :> 2) @@ (KB :> 2)
      [] OTHER       -> EmptyMap

\* ------------------------------------------------------------- flask.Config
\* from_mapping / from_object / from_json / from_pyfile all end in
\*   if key.isupper(): self[key] = value
\* Mutant of from_mapping: the isupper test is missing.
from_mapping_AnyCase(s, m) == Update(s, m)

from_mapping(s, m) == Update(s, Restrict(m, {k \in DOMAIN m : IsUpper(k)}))

from_object(s, obj) == from_mapping(s, obj)

\* ------------------------------------------------------------------- loaders
\* Mutants of _configure_from_mapping.
\* Without an explicit whitelist nothing is filtered.
_configure_from_mapping_NoDefault(s, item, whitelist_keys, whitelist) ==
    LET item2 == IF whitelist_keys /\ whitelist.given
                 THEN Restrict(item, whitelist.keys) ELSE item
    IN  from_mapping(s, item2)

\* The explicit whitelist is ignored: the store's keys are always used.
_configure_from_mapping_StoreKeys(s, item, whitelist_keys, whitelist) ==
    LET item2 == IF whitelist_keys THEN Restrict(item, DOMAIN s) ELSE item
    IN  from_mapping(s, item2)

\* An explicit whitelist filters even when whitelist_keys is false.
_configure_from_mapping_AlwaysFilter(s, item, whitelist_keys, whitelist) ==
    LET wl    == IF ~whitelist.given THEN DOMAIN s ELSE whitelist.keys
        item2 == IF whitelist_keys \/ whitelist.given
                 THEN Restrict(item, wl) ELSE item
    IN  from_mapping(s, item2)

\* _configure_from_mapping: the store after the call.
_configure_from_mapping(s, item, whitelist_keys, whitelist) ==
    LET wl    == IF ~whitelist.given THEN DOMAIN s ELSE whitelist.keys
        item2 == IF whitelist_keys THEN Restrict(item, wl) ELSE item
    IN  from_mapping(s, item2)

\* _configure_from_object
_configure_from_object(s, item) == from_object(s, item.attrs)

\* The error a string source raises in its loader, "none" when it loads.
JsonError(p)   == IF p \in FilePaths THEN "none" ELSE "IOError"
PyfileError(p) == IF p \in FilePaths THEN "none" ELSE "IOError"
ModuleError(p) ==
    IF Len(p) = 0 THEN "IndexError"
    ELSE IF Importable(p, p[1] = ".") THEN "none" ELSE "ImportError"

\* Mutants of Route.
\* hasattr(item, 'items') is tested before the module/class test.
Route_ItemsFirst(item) ==
    IF item.type = "str"
    THEN LET ext == splitext(item.text)
         IN  IF ext = ExtJson THEN "json"
             ELSE IF ext \in {ExtCfg, ExtPy} THEN "pyfile"
             ELSE "module"
    ELSE IF item.items THEN "mapping"
    ELSE IF item.type \in {"module", "class"} THEN "object"
    ELSE "none"

\* The final else is missing: whatever is left is taken for a mapping.
Route_NoElse(item) ==
    IF item.type = "str"
    THEN LET ext == splitext(item.text)
         IN  IF ext = ExtJson THEN "json"
             ELSE IF ext \in {ExtCfg, ExtPy} THEN "pyfile"
             ELSE "module"
    ELSE IF item.type \in {"module", "class"} THEN "object"
    ELSE "mapping"

\* The branch of configure()'s if/elif chain an item takes.
Route(item) ==
    IF item.type = "str"
    THEN LET ext == splitext(item.text)
         IN  IF ext = ExtJson THEN "json"
             ELSE IF ext \in {ExtCfg, ExtPy} THEN "pyfile"
             ELSE "module"
    ELSE IF item.type \in {"module", "class"} THEN "object"
    ELSE IF item.items THEN "mapping"
    ELSE "none"

\* ---------------------------------------------------------------------- state
VARIABLES
    store,      \* self.config
    pc,         \* "idle", "loop" (inside configure's for), "returned", "raised"
    op,         \* the public method last called
    args,       \* the positional sources of the call
    i,          \* index of the next source of args
    wkfm,       \* whitelist_keys_from_mappings
    whitelist,  \* the whitelist keyword
    rv,         \* what the call returned: "self" or "None"
    err,        \* the exception that left the call
    store0,     \* history: the store when the call began
    pre,        \* history: the store before the latest source was handled
    routes      \* history: the loader each handled source went to

cvars == <<store, pc, op, args, i, wkfm, whitelist, rv, err, store0, pre, routes>>

\* scripts/make_release.py and the checkout it runs in.
VARIABLES
    changelog,    \* what parse_changelog() finds in CHANGES
    gitTags,      \* the tags of the repository
    gitClean,     \* git diff --quiet exits 0
    initVersion,  \* __version__ in fleaker/__init__.py
    downloadUrl,  \* the version in setup.py's download_url
    gitCommits,   \* versions a "Bump version number" commit exists for
    uploads,      \* what setup.py upload sent, and where
    rpc,          \* position in main()
    pypiAlias,    \* main's pypi_alias
    version,      \* main's version
    tagsRead,     \* main's tags
    failMsg       \* the message of fail(), "" when none

rvars == <<changelog, gitTags, gitClean, initVersion, downloadUrl, gitCommits,
           uploads, rpc, pypiAlias, version, tagsRead, failMsg>>

vars == <<cvars, rvars>>

NoError == [type |-> "none", value |-> <<>>]

ArgSeqs == UNION { [1..n -> Sources] : n \in 0..MaxArgs }

ConfigInit ==
    /\ store \in { EmptyMap, (KA :> 1) }
    /\ pc = "idle"
    /\ op = "none"
    /\ args = <<>>
    /\ i = 1
    /\ wkfm = FALSE
    /\ whitelist = NoWhitelist
    /\ rv = "None"
    /\ err = NoError
    /\ store0 = store
    /\ pre = store
    /\ routes = <<>>

\* app.configure(*a, whitelist_keys_from_mappings=wk, whitelist=wl): entry.
CallConfigure ==
    /\ pc = "idle"
    /\ \E a \in ArgSeqs, wk \in BOOLEAN, wl \in Whitelists :
         /\ args' = a
         /\ wkfm' = wk
         /\ whitelist' = wl
    /\ pc' = "loop"
    /\ op' = "configure"
    /\ i' = 1
    /\ rv' = "None"
    /\ err' = NoError
    /\ store0' = store
    /\ pre' = store
    /\ routes' = <<>>
    /\ UNCHANGED store
    /\ UNCHANGED rvars

\* One source handled without error: the loop moves on.
Loaded(newStore, loader) ==
    /\ store' = newStore
    /\ pre' = store
    /\ routes' = Append(routes, loader)
    /\ i' = i + 1
    /\ UNCHANGED <<pc, op, args, wkfm, whitelist, rv, err, store0>>
    /\ UNCHANGED rvars

\* Mutant of Raised: the merges of the call are undone before the exception
\* leaves.
Raised_Rollback(type, loader) ==
    /\ pc' = "raised"
    /\ err' = [type |-> type, value |-> args[i].text]
    /\ pre' = store
    /\ store' = store0
    /\ routes' = IF loader = "none" THEN routes ELSE Append(routes, loader)
    /\ UNCHANGED <<op, args, i, wkfm, whitelist, rv, store0>>
    /\ UNCHANGED rvars

\* An exception leaves configure(): nothing catches it.
Raised(type, loader) ==
    /\ pc' = "raised"
    /\ err' = [type |-> type, value |-> args[i].text]
    /\ pre' = store
    /\ routes' = IF loader = "none" THEN routes ELSE Append(routes, loader)
    /\ UNCHANGED <<store, op, args, i, wkfm, whitelist, rv, store0>>
    /\ UNCHANGED rvars

InLoop(loader) == pc = "loop" /\ i <= Len(args) /\ Route(args[i]) = loader

\* self._configure_from_json(item)
DispatchJson ==
    /\ InLoop("json")
    /\ IF JsonError(args[i].text) = "none"
       THEN Loaded(from_mapping(store, FileData(args[i].text)), "json")
       ELSE Raised(JsonError(args[i].text), "json")

\* self._configure_from_pyfile(item)
DispatchPyfile ==
    /\ InLoop("pyfile")
    /\ IF PyfileError(args[i].text) = "none"
       THEN Loaded(from_object(store, FileData(args[i].text)), "pyfile")
       ELSE Raised(PyfileError(args[i].text), "pyfile")

\* self._configure_from_module(item)
DispatchModule ==
    /\ InLoop("module")
    /\ IF ModuleError(args[i].text) = "none"
       THEN Loaded(from_object(store, ModuleAttrs(args[i].text)), "module")
       ELSE Raised(ModuleError(args[i].text), "module")

\* self._configure_from_object(item)
DispatchObject ==
    /\ InLoop("object")
    /\ Loaded(_configure_from_object(store, args[i]), "object")

\* self._configure_from_mapping(item, whitelist_keys=..., whitelist=...)
DispatchMapping ==
    /\ InLoop("mapping")
    /\ Loaded(_configure_from_mapping(store, args[i].attrs, wkfm, whitelist),
              "mapping")

\* raise TypeError("Could not determine a valid type ... `{}`!".format(item))
DispatchUnsupported ==
    /\ InLoop("none")
    /\ Raised("TypeError", "none")

\* The for loop is exhausted: configure() falls off its end.
ReturnConfigure ==
    /\ pc = "loop"
    /\ i > Len(args)
    /\ pc' = "returned"
    /\ rv' = "None"
    /\ UNCHANGED <<store, op, args, i, wkfm, whitelist, err, store0, pre, routes>>
    /\ UNCHANGED rvars

\* app.configure_from_environment(whitelist_keys=wk, whitelist=wl), os.environ
\* being any of the sample mappings.
ConfigureFromEnvironment ==
    /\ pc = "idle"
    /\ \E env \in MappingSources, wk \in BOOLEAN, wl \in Whitelists :
         /\ store' = _configure_from_mapping(store, env.attrs, wk, wl)
         /\ args' = <<env>>
         /\ wkfm' = wk
         /\ whitelist' = wl
    /\ pc' = "returned"
    /\ op' = "configure_from_environment"
    /\ i' = 2
    /\ rv' = "self"
    /\ err' = NoError
    /\ store0' = store
    /\ pre' = store
    /\ routes' = <<"mapping">>
    /\ UNCHANGED rvars

\* The caller goes on after a call returned or after catching its exception:
\* the application object, and with it the store, lives on.
Resume ==
    /\ pc \in {"returned", "raised"}
    /\ pc' = "idle"
    /\ op' = "none"
    /\ args' = <<>>
    /\ i' = 1
    /\ wkfm' = FALSE
    /\ whitelist' = NoWhitelist
    /\ rv' = "None"
    /\ err' = NoError
    /\ store0' = store
    /\ pre' = store
    /\ routes' = <<>>
    /\ UNCHANGED store
    /\ UNCHANGED rvars


\* ------------------------------------------------------------ make_release.py
Versions == { <<ToString(n)>> : n \in 1..MaxVersion }

\* tag_version = 'v' + version
TagVersion(v) == <<"v">> \o v
\* dev_version = version + '-dev'
DevVersion(v) == v \o <<"-", "d", "e", "v">>

Unparsed == [parsed |-> FALSE, version |-> <<>>, today |-> FALSE]
Changelogs ==
    {Unparsed} \cup [parsed : {TRUE}, version : Versions, today : BOOLEAN]

\* The script is not running.
ReleaseAtRest == rpc \in {"idle", "done", "failed"}

ReleaseIdle ==
    /\ changelog = [parsed |-> TRUE, version |-> <<"1">>, today |-> TRUE]
    /\ gitTags = {}
    /\ gitClean = TRUE
    /\ initVersion = DevVersion(<<"0">>)
    /\ downloadUrl = TagVersion(<<"0">>)
    /\ gitCommits = {}
    /\ uploads = {}
    /\ rpc = "idle"
    /\ pypiAlias = "pypi"
    /\ version = <<>>
    /\ tagsRead = {}
    /\ failMsg = ""

\* A developer rewrites the head of CHANGES.
DevEditChangelog ==
    /\ ReleaseAtRest
    /\ \E c \in Changelogs :
         /\ c # changelog
         /\ changelog' = c
    /\ gitClean' = FALSE
    /\ UNCHANGED <<gitTags, initVersion, downloadUrl, gitCommits, uploads, rpc,
                   pypiAlias, version, tagsRead, failMsg>>
    /\ UNCHANGED cvars

\* A developer commits what is pending (git commit -a).
DevCommit ==
    /\ ReleaseAtRest
    /\ ~gitClean
    /\ gitClean' = TRUE
    /\ UNCHANGED <<changelog, gitTags, initVersion, downloadUrl, gitCommits,
                   uploads, rpc, pypiAlias, version, tagsRead, failMsg>>
    /\ UNCHANGED cvars

\* A developer tags by hand, with the bare version as the tag.
DevTag ==
    /\ ReleaseAtRest
    /\ \E v \in Versions :
         /\ v \notin gitTags
         /\ gitTags' = gitTags \cup {v}
    /\ UNCHANGED <<changelog, gitClean, initVersion, downloadUrl, gitCommits,
                   uploads, rpc, pypiAlias, version, tagsRead, failMsg>>
    /\ UNCHANGED cvars

\* main(): argument parsing, pypi_alias.
RunMain ==
    /\ ReleaseAtRest
    /\ \E test \in BOOLEAN :
         pypiAlias' = IF ~test THEN "pypi" ELSE "pypitest"
    /\ rpc' = "parse"
    /\ version' = <<>>
    /\ tagsRead' = {}
    /\ failMsg' = ""
    /\ UNCHANGED <<changelog, gitTags, gitClean, initVersion, downloadUrl,
                   gitCommits, uploads>>
    /\ UNCHANGED cvars

\* fail(message): print and sys.exit(1).
Fail(message) ==
    /\ rpc' = "failed"
    /\ failMsg' = message
    /\ UNCHANGED <<changelog, gitTags, gitClean, initVersion, downloadUrl,
                   gitCommits, uploads, pypiAlias, version, tagsRead>>

\* The step at position at passes control to position to.
Goto(to) ==
    /\ rpc' = to
    /\ UNCHANGED <<changelog, gitTags, gitClean, initVersion, downloadUrl,
                   gitCommits, uploads, pypiAlias, version, tagsRead, failMsg>>

\* rv = parse_changelog(); version, release_date, codename = rv
ParseChangelog ==
    /\ rpc = "parse"
    /\ IF ~changelog.parsed
       THEN Fail("Could not parse changelog")
       ELSE /\ version' = changelog.version
            /\ rpc' = "tags"
            /\ UNCHANGED <<changelog, gitTags, gitClean, initVersion,
                           downloadUrl, gitCommits, uploads, pypiAlias,
                           tagsRead, failMsg>>
    /\ UNCHANGED cvars

\* tags = get_git_tags()
GetGitTags ==
    /\ rpc = "tags"
    /\ tagsRead' = gitTags
    /\ rpc' = "check_tag"
    /\ UNCHANGED <<changelog, gitTags, gitClean, initVersion, downloadUrl,
                   gitCommits, uploads, pypiAlias, version, failMsg>>
    /\ UNCHANGED cvars

\* if version in tags: fail(...)
CheckTagged ==
    /\ rpc = "check_tag"
    /\ IF version \in tagsRead
       THEN Fail("already tagged")
       ELSE Goto("check_date")
    /\ UNCHANGED cvars

\* if release_date.date() != date.today(): fail(...)
CheckDate ==
    /\ rpc = "check_date"
    /\ IF ~changelog.today
       THEN Fail("Release date is not today")
       ELSE Goto("check_clean")
    /\ UNCHANGED cvars

\* if not git_is_clean(): fail(...)
CheckClean ==
    /\ rpc = "check_clean"
    /\ IF ~gitClean
       THEN Fail("You have uncommitted changes in git")
       ELSE Goto("set_init")
    /\ UNCHANGED cvars

\* set_init_version(version)
SetInitVersion ==
    /\ rpc = "set_init"
    /\ initVersion' = version
    /\ gitClean' = (gitClean /\ initVersion = version)
    /\ rpc' = "set_url"
    /\ UNCHANGED <<changelog, gitTags, downloadUrl, gitCommits, uploads,
                   pypiAlias, version, tagsRead, failMsg>>
    /\ UNCHANGED cvars

\* update_download_url('setup.py', tag_version)
UpdateDownloadUrl ==
    /\ rpc = "set_url"
    /\ downloadUrl' = TagVersion(version)
    /\ gitClean' = (gitClean /\ downloadUrl = TagVersion(version))
    /\ rpc' = "commit"
    /\ UNCHANGED <<changelog, gitTags, initVersion, gitCommits, uploads,
                   pypiAlias, version, tagsRead, failMsg>>
    /\ UNCHANGED cvars

\* make_git_commit('Bump version number to %s', version): git commit -am,
\* which commits nothing when nothing is modified.
MakeGitCommit ==
    /\ rpc = "commit"
    /\ gitCommits' = IF gitClean THEN gitCommits ELSE gitCommits \cup {version}
    /\ gitClean' = TRUE
    /\ rpc' = "tag"
    /\ UNCHANGED <<changelog, gitTags, initVersion, downloadUrl, uploads,
                   pypiAlias, version, tagsRead, failMsg>>
    /\ UNCHANGED cvars

\* make_git_tag(tag_version): git tag -s -a; git refuses an existing tag
\* and the exit status is not looked at.
MakeGitTag ==
    /\ rpc = "tag"
    /\ gitTags' = gitTags \cup {TagVersion(version)}
    /\ rpc' = "upload"
    /\ UNCHANGED <<changelog, gitClean, initVersion, downloadUrl, gitCommits,
                   uploads, pypiAlias, version, tagsRead, failMsg>>
    /\ UNCHANGED cvars

\* build_and_upload(pypi_alias)
BuildAndUpload ==
    /\ rpc = "upload"
    /\ uploads' = uploads \cup {[alias |-> pypiAlias, version |-> initVersion]}
    /\ rpc' = "set_dev"
    /\ UNCHANGED <<changelog, gitTags, gitClean, initVersion, downloadUrl,
                   gitCommits, pypiAlias, version, tagsRead, failMsg>>
    /\ UNCHANGED cvars

\* set_init_version(dev_version); main() returns.
SetDevVersion ==
    /\ rpc = "set_dev"
    /\ initVersion' = DevVersion(version)
    /\ gitClean' = (gitClean /\ initVersion = DevVersion(version))
    /\ rpc' = "done"
    /\ UNCHANGED <<changelog, gitTags, downloadUrl, gitCommits, uploads,
                   pypiAlias, version, tagsRead, failMsg>>
    /\ UNCHANGED cvars

\* The application as constructed, no call made.
ConfigIdle ==
    /\ store = EmptyMap
    /\ pc = "idle"
    /\ op = "none"
    /\ args = <<>>
    /\ i = 1
    /\ wkfm = FALSE
    /\ whitelist = NoWhitelist
    /\ rv = "None"
    /\ err = NoError
    /\ store0 = store
    /\ pre = store
    /\ routes = <<>>

InitRelease == ConfigIdle /\ ReleaseIdle

NextRelease ==
    \/ DevEditChangelog
    \/ DevCommit
    \/ DevTag
    \/ RunMain
    \/ ParseChangelog
    \/ GetGitTags
    \/ CheckTagged
    \/ CheckDate
    \/ CheckClean
    \/ SetInitVersion
    \/ UpdateDownloadUrl
    \/ MakeGitCommit
    \/ MakeGitTag
    \/ BuildAndUpload
    \/ SetDevVersion

SpecRelease == InitRelease /\ [][NextRelease]_vars

Init == ConfigInit /\ ReleaseIdle

Next ==
    \/ CallConfigure
    \/ DispatchJson
    \/ DispatchPyfile
    \/ DispatchModule
    \/ DispatchObject
    \/ DispatchMapping
    \/ DispatchUnsupported
    \/ ReturnConfigure
    \/ ConfigureFromEnvironment
    \/ Resume

Spec == Init /\ [][Next]_vars

TypeOK ==
    /\ pc \in {"idle", "loop", "returned", "raised"}
    /\ i \in 1..(MaxArgs + 1)
    /\ DOMAIN store \subseteq AllKeys


\* =================================================================== claims
\* The source handled last was a mapping, and it was merged.
HandledMapping ==
    /\ pc \in {"loop", "returned"}
    /\ i > 1
    /\ Len(routes) = i - 1
    /\ routes[i - 1] = "mapping"
    /\ args[i - 1].type = "dict"

LastItem == args[i - 1].attrs

SetMax(S) == CHOOSE x \in S : \A y \in S : y <= x

\* C1: after a configure() call whose sources are all mappings, whitelisting
\* off, every uppercase key occurring in a source has the value of the last
\* source containing it, and a key of the initial store occurring in no
\* source keeps its value.
C1_LastSourceWins ==
    ( /\ pc = "returned"
      /\ op = "configure"
      /\ ~wkfm
      /\ \A j \in 1..Len(args) : args[j].type = "dict" )
    => \A k \in AllKeys :
         LET occ == {j \in 1..Len(args) : k \in DOMAIN args[j].attrs}
         IN  /\ (IsUpper(k) /\ occ # {})
                  => k \in DOMAIN store /\ store[k] = args[SetMax(occ)].attrs[k]
             /\ (k \in DOMAIN store0 /\ occ = {})
                  => k \in DOMAIN store /\ store[k] = store0[k]

C1_Witness ==
    /\ pc = "returned" /\ op = "configure" /\ ~wkfm
    /\ Len(args) = 2
    /\ args[1].type = "dict" /\ args[2].type = "dict"
    /\ KA \in DOMAIN args[1].attrs /\ KA \in DOMAIN args[2].attrs
    /\ args[1].attrs[KA] # args[2].attrs[KA]
    /\ store[KA] = args[2].attrs[KA]
    /\ KB \in DOMAIN store

\* C2: every key of the store is all-uppercase, whatever was called with
\* whatever sources and whitelist options.
C2_OnlyUppercaseKeys == \A k \in DOMAIN store : IsUpper(k)

C2_Witness ==
    /\ HandledMapping
    /\ wkfm /\ whitelist.given
    /\ Kb \in whitelist.keys
    /\ Kb \in DOMAIN LastItem
    /\ Kb \notin DOMAIN store
    /\ KB \in DOMAIN store

\* C3: with whitelist_keys_from_mappings on and no explicit whitelist, a
\* mapping source overrides the keys the store already has and adds none.
C3_DefaultWhitelistIsStoreKeys ==
    (HandledMapping /\ wkfm /\ ~whitelist.given)
    => /\ DOMAIN store = DOMAIN pre
       /\ \A k \in DOMAIN store :
            store[k] = IF k \in DOMAIN LastItem THEN LastItem[k] ELSE pre[k]

C3_Witness ==
    /\ HandledMapping /\ wkfm /\ ~whitelist.given
    /\ pre = (KA :> 1)
    /\ LastItem = (KA :> 2) @@ (KB :> 1)
    /\ store = (KA :> 2)

\* C4: with whitelist_keys_from_mappings on and an explicit whitelist W, an
\* uppercase key of a mapping source is admitted iff it is in W, whatever
\* the store holds.
C4_ExplicitWhitelistVerbatim ==
    (HandledMapping /\ wkfm /\ whitelist.given)
    => \A k \in DOMAIN LastItem :
         IsUpper(k) =>
           IF k \in whitelist.keys
           THEN k \in DOMAIN store /\ store[k] = LastItem[k]
           ELSE /\ k \in DOMAIN store <=> k \in DOMAIN pre
                /\ k \in DOMAIN pre => store[k] = pre[k]

C4_Witness ==
    /\ HandledMapping /\ wkfm /\ whitelist.given
    /\ KB \in whitelist.keys /\ KA \notin whitelist.keys
    /\ KB \in DOMAIN LastItem /\ KB \notin DOMAIN pre /\ KB \in DOMAIN store
    /\ KA \in DOMAIN LastItem /\ KA \in DOMAIN pre
    /\ store[KA] = pre[KA] /\ store[KA] # LastItem[KA]

\* C5: with whitelist_keys_from_mappings off, every uppercase key of a
\* mapping source is admitted, an explicit whitelist notwithstanding.
C5_NoFilterWhenFlagOff ==
    (HandledMapping /\ ~wkfm)
    => \A k \in DOMAIN LastItem :
         IsUpper(k) => k \in DOMAIN store /\ store[k] = LastItem[k]

C5_Witness ==
    /\ HandledMapping /\ ~wkfm
    /\ whitelist.given /\ whitelist.keys = {}
    /\ KA \in DOMAIN LastItem /\ KA \notin DOMAIN pre /\ KA \in DOMAIN store

\* C6: a configure() call that completes returns the application object.
C6_ConfigureReturnsSelf ==
    (pc = "returned" /\ op = "configure") => rv = "self"

\* Not a string, not a module or class, no 'items' attribute.
Unsupported(item) ==
    /\ item.type \notin {"str", "module", "class"}
    /\ ~item.items

\* C7: a source of no recognised shape makes configure() raise TypeError
\* carrying that value, the loop never gets past such a source, and a source
\* of a recognised shape never raises that error.
C7_UnsupportedTypeRaises ==
    /\ \A j \in 1..Len(args) : j < i => ~Unsupported(args[j])
    /\ pc = "raised" =>
         /\ Unsupported(args[i]) <=> err.type = "TypeError"
         /\ Unsupported(args[i]) => err.value = args[i].text

C7_Witness ==
    /\ pc = "raised"
    /\ i = 2
    /\ args[2].type = "int"
    /\ err = [type |-> "TypeError", value |-> <<"5">>]

\* p is stem + e, the file name part of stem holding a character other
\* than a dot (e is one of the three extensions: a dot, then letters).
HasExtension(p, e) ==
    /\ Len(p) > Len(e)
    /\ SubSeq(p, Len(p) - Len(e) + 1, Len(p)) = e
    /\ \E n \in 1..(Len(p) - Len(e)) :
         /\ p[n] \notin {".", "/"}
         /\ \A m \in n..(Len(p) - Len(e)) : p[m] # "/"

ExpectedLoader(item) ==
    CASE item.type = "str" /\ HasExtension(item.text, ExtJson) -> "json"
      [] item.type = "str" /\ ~HasExtension(item.text, ExtJson)
           /\ (HasExtension(item.text, ExtCfg) \/ HasExtension(item.text, ExtPy))
           -> "pyfile"
      [] item.type = "str" /\ ~HasExtension(item.text, ExtJson)
           /\ ~HasExtension(item.text, ExtCfg) /\ ~HasExtension(item.text, ExtPy)
           -> "module"
      [] item.type \in {"module", "class"} -> "object"
      [] item.type \notin {"str", "module", "class"} /\ item.items -> "mapping"
      [] OTHER -> "none"

\* C8: each handled source went to exactly one loader: the JSON loader for
\* a string with extension .json, the code-file loader for .cfg or .py, the
\* import-path loader for any other string, the object loader for a module
\* or class (even one with 'items'), the mapping loader for anything else
\* with 'items'.
C8_RoutingOrder ==
    /\ pc \in {"loop", "returned"} => Len(routes) = i - 1
    /\ \A j \in 1..Len(routes) : routes[j] = ExpectedLoader(args[j])

C8_Witness ==
    /\ pc = "returned" /\ op = "configure"
    /\ Len(args) = 2
    /\ args[1].type = "class" /\ args[1].items
    /\ args[2].type = "str" /\ args[2].text = PRel
    /\ routes = <<"object", "module">>

\* What merging one source, which loads, makes of the store.
Merged(s, item, wk, wl) ==
    CASE Route(item) = "json"    -> from_mapping(s, FileData(item.text))
      [] Route(item) = "pyfile"  -> from_object(s, FileData(item.text))
      [] Route(item) = "module"  -> from_object(s, ModuleAttrs(item.text))
      [] Route(item) = "object"  -> _configure_from_object(s, item)
      [] Route(item) = "mapping" -> _configure_from_mapping(s, item.attrs, wk, wl)
      [] OTHER -> s

RECURSIVE MergedAll(_, _, _, _)
MergedAll(s, items, wk, wl) ==
    IF items = <<>> THEN s
    ELSE MergedAll(Merged(s, Head(items), wk, wl), Tail(items), wk, wl)

PastChecks == {"set_init", "set_url", "commit", "tag", "upload", "set_dev"}

\* C10: main() gets to rewrite files, commit, tag and upload only when the
\* tag a release of this version creates did not exist, the release date is
\* today and the working tree was clean: a run that finds that tag stops at
\* its 'already tagged' check.
C10_NeverTagsTwice ==
    /\ rpc \in PastChecks =>
         /\ TagVersion(version) \notin tagsRead
         /\ changelog.today
    /\ rpc = "set_init" => gitClean

====
